---- MODULE Spec2Model ----
(***************************************************************************)
(* Online-Banking-System: the console engine (online-banking-system.py,    *)
(* class Bank, one process with one long-lived sqlite connection) and the  *)
(* web front-end (app.py, one fresh connection per request) over the same  *)
(* bank.db file.                                                           *)
(*                                                                         *)
(* Amounts and balances are integers (currency units); the clock counts    *)
(* whole seconds.  A store failure (an sqlite statement or commit that     *)
(* raises) is an input of the operation: fail = k makes the k-th write of  *)
(* the operation raise, fail = 0 lets every write through.                 *)
(***************************************************************************)
EXTENDS Integers, Sequences, FiniteSets, TLC

(* ---------------------------------------------------------------- bounds *)
MaxLog == 2          \* transaction rows ever inserted into one database
MaxTicks == 2        \* seconds the clock may advance
Epoch == 1700000000  \* time.time() when the model starts

(* ------------------------------------------------------ program constants *)
SeedAccount == 1234567890
SeedBalance == 10000
TOKEN_EXPIRATION_MINUTES == 30
RateLimitInterval == 2
AccountNumberDigits == 10
HistoryLimit == 10
DashboardLimit == 5

(* ------------------------------------------------------------ input sets *)
\* amounts a caller supplies: negative, zero, positive
Amounts == {-1, 0, 1}
InitialDeposits == {-1, 0, 1}
Usernames == {"test", "alice"}
Passwords == {"test123", "pw"}
NewName == "Alice"
WebSessions == {1, 2}

VARIABLES
    db,                \* committed content of bank.db
    clock,             \* seconds elapsed since Epoch
    current_user,      \* Bank.current_user: <<>> (None) or <<record>>
    token,             \* Bank.token: <<>> (None) or <<payload>>
    rate_limit_cache,  \* module-level dict of the console process
    pend,              \* open transaction of Bank.conn: <<>> or <<working copy>>
    session,           \* flask session of each browser: <<>> or <<record>>
    req,               \* request in flight of each browser: <<>> or <<record>>
    last               \* the operation that ran last and what it reported

vars == <<db, clock, current_user, token, rate_limit_cache, pend, session, req, last>>

(* ----------------------------------------------------------- pure helpers *)
\* str(n) for n >= 0, as the sequence of its decimal digits
RECURSIVE Str(_)
Str(n) == IF n < 10 THEN <<n>> ELSE Append(Str(n \div 10), n % 10)

\* text[-k:]
LastChars(text, k) ==
    IF Len(text) <= k THEN text ELSE SubSeq(text, Len(text) - k + 1, Len(text))

\* an account number is kept as the number its digits spell
RECURSIVE Digits2Int(_)
Digits2Int(text) ==
    IF text = <<>> THEN 0
    ELSE 10 * Digits2Int(SubSeq(text, 1, Len(text) - 1)) + text[Len(text)]

\* time.time()
Now == Epoch + clock

\* str(int(time.time()))[-10:]
AccountNumber(t) == Digits2Int(LastChars(Str(t), AccountNumberDigits))

\* hashlib.sha256(password.encode()).hexdigest()
hash_password(p) == <<"sha256", p>>

\* a verifier test that looks at the stored hash only
_verify_password_Any(stored, p) == stored # <<>>

\* Bank._verify_password
_verify_password(stored, p) == stored = hash_password(p)

Remove(f, k) == [x \in DOMAIN f \ {k} |-> f[x]]

RECURSIVE SumOver(_, _)
SumOver(f, S) ==
    IF S = {} THEN 0
    ELSE LET k == CHOOSE x \in S : TRUE
         IN  f[k].balance + SumOver(f, S \ {k})

\* the sum of all stored balances of a store
TotalBalance(s) == SumOver(s.accounts, DOMAIN s.accounts)

(* ------------------------------------------------------------- the store *)
\* initialize_database: the three tables and the sample rows
SeedDb ==
    [accounts |-> (SeedAccount :> [name |-> "Test User", balance |-> SeedBalance]),
     users    |-> ("test" :> [account_number |-> SeedAccount,
                              password_hash |-> hash_password("test123")]),
     log      |-> <<>>,
     seq      |-> 0]

\* an update that moves the balance by the size of delta, whatever its sign
UpdateBalance_Unsigned(s, acct, delta) ==
    IF acct \in DOMAIN s.accounts
    THEN [s EXCEPT !.accounts[acct].balance = @ + (IF delta < 0 THEN -delta ELSE delta)]
    ELSE s

\* UPDATE accounts SET balance = balance + ? WHERE account_number = ?
UpdateBalance(s, acct, delta) ==
    IF acct \in DOMAIN s.accounts
    THEN [s EXCEPT !.accounts[acct].balance = @ + delta]
    ELSE s

\* a row of transactions inserted at time t: id AUTOINCREMENT, timestamp
\* DEFAULT CURRENT_TIMESTAMP (whole seconds)
InsertTransactionAt(s, acct, type, amount, related, t) ==
    [s EXCEPT !.log = Append(@, [id |-> s.seq + 1, account_number |-> acct,
                                 type |-> type, amount |-> amount,
                                 related_account |-> related, timestamp |-> t]),
              !.seq = @ + 1]

\* INSERT INTO transactions (account_number, type, amount[, related_account])
InsertTransaction(s, acct, type, amount, related) ==
    InsertTransactionAt(s, acct, type, amount, related, Now)

\* SELECT ... FROM transactions WHERE account_number = ?
OwnRecords(s, acct) ==
    {s.log[i] : i \in {j \in 1..Len(s.log) : s.log[j].account_number = acct}}

\* ORDER BY timestamp DESC: every order of the rows in which no row comes
\* before a row of a later timestamp; the statement names no second key, so
\* rows of one timestamp come in an order that sqlite is free to choose
RECURSIVE OrderByTimestampDesc(_)
OrderByTimestampDesc(rows) ==
    IF rows = {} THEN {<<>>}
    ELSE UNION {{<<r>> \o q : q \in OrderByTimestampDesc(rows \ {r})} :
                   r \in {x \in rows : \A y \in rows : x.timestamp >= y.timestamp}}

\* LIMIT n
Limit(q, n) == IF Len(q) <= n THEN q ELSE SubSeq(q, 1, n)

\* SELECT ... WHERE account_number = ? ORDER BY timestamp DESC LIMIT n: the
\* results that .fetchall() may return
SelectHistory(s, acct, n) ==
    {Limit(q, n) : q \in OrderByTimestampDesc(OwnRecords(s, acct))}

\* INSERT INTO accounts VALUES (?, ?, ?): the primary key rejects a duplicate
AccountInsertable(s, acct) == acct \notin DOMAIN s.accounts

InsertAccount(s, acct, name, balance) ==
    [s EXCEPT !.accounts = (acct :> [name |-> name, balance |-> balance]) @@ @]

\* INSERT INTO users VALUES (?, ?, ?): username PRIMARY KEY, account_number UNIQUE
UserInsertable(s, u, acct) ==
    /\ u \notin DOMAIN s.users
    /\ \A x \in DOMAIN s.users : s.users[x].account_number # acct

InsertUser(s, u, acct, p) ==
    [s EXCEPT !.users = (u :> [account_number |-> acct,
                               password_hash |-> hash_password(p)]) @@ @]

\* DELETE FROM transactions WHERE account_number = ?
DeleteTransactions(s, acct) ==
    [s EXCEPT !.log = SelectSeq(@, LAMBDA r : r.account_number # acct)]

\* the user row is left behind
DeleteUser_Skip(s, acct) == s

\* DELETE FROM users WHERE account_number = ?
DeleteUser(s, acct) ==
    [s EXCEPT !.users = [u \in {x \in DOMAIN @ : @[x].account_number # acct} |-> @[u]]]

\* DELETE FROM accounts WHERE account_number = ?
DeleteAccountRow(s, acct) == [s EXCEPT !.accounts = Remove(@, acct)]

\* related_account is NULL (<<>>) unless the statement names one
NoRelated == <<>>

Related(acct) == <<acct>>

\* the first n of the four writes of a transfer of amount from me to to:
\* debit, credit, 'Transfer Sent' row, 'Transfer Received' row
TransferWrites(s, me, to, amount, n) ==
    LET s1 == UpdateBalance(s, me, -amount)
        s2 == UpdateBalance(s1, to, amount)
        s3 == InsertTransaction(s2, me, "Transfer Sent", amount, Related(to))
        s4 == InsertTransaction(s3, to, "Transfer Received", amount, Related(me))
    IN  CASE n = 0 -> s
          [] n = 1 -> s1
          [] n = 2 -> s2
          [] n = 3 -> s3
          [] OTHER -> s4

(* ------------------------------------------------------ what a call reports *)
Report(op, res) == [op |-> op, res |-> res]

\* what a call that lists transaction records reports: the rows, in the order
\* in which they are printed or rendered
ReportRows(op, res, rows) == [op |-> op, res |-> res, rows |-> rows]

\* the store as Bank.conn sees it: its own uncommitted writes included
ConsStore == IF pend = <<>> THEN db ELSE pend[1]

\* an exception that no handler of the console catches: main's finally closes
\* the connection (uncommitted writes are rolled back) and the process ends,
\* taking current_user, token and rate_limit_cache with it
Crash(op) ==
    /\ pend' = <<>>
    /\ current_user' = <<>>
    /\ token' = <<>>
    /\ rate_limit_cache' = <<>>
    /\ last' = Report(op, "crash")
    /\ UNCHANGED <<db, clock, session, req>>

\* @authenticate
Authenticated == current_user # <<>>

\* @rate_limiter: the test on rate_limit_cache
RateLimited(acct) ==
    /\ acct \in DOMAIN rate_limit_cache
    /\ Now - rate_limit_cache[acct] < RateLimitInterval

\* rate_limit_cache[account_number] = current_time
Stamp(acct) == (acct :> Now) @@ rate_limit_cache

\* the rate guard placed before the authentication test: a call without an
\* identity is stamped under the guard's anonymous key (0) before it is refused
Refused_Stamps(op) ==
    \/ /\ ~Authenticated
       /\ rate_limit_cache' = (0 :> Now) @@ rate_limit_cache
       /\ last' = Report(op, "Unauthenticated")
       /\ UNCHANGED <<db, clock, current_user, token, pend, session, req>>
    \/ /\ Authenticated
       /\ RateLimited(current_user[1].account_number)
       /\ last' = Report(op, "RateLimited")
       /\ UNCHANGED <<db, clock, current_user, token, rate_limit_cache, pend, session, req>>

\* the rate guard recording the time of the attempt before its test: an attempt
\* that is turned down moves the identity's timestamp all the same
Refused_Restamps(op) ==
    \/ /\ ~Authenticated
       /\ last' = Report(op, "Unauthenticated")
       /\ UNCHANGED <<db, clock, current_user, token, rate_limit_cache, pend, session, req>>
    \/ /\ Authenticated
       /\ RateLimited(current_user[1].account_number)
       /\ rate_limit_cache' = Stamp(current_user[1].account_number)
       /\ last' = Report(op, "RateLimited")
       /\ UNCHANGED <<db, clock, current_user, token, pend, session, req>>

\* the call is refused by a decorator before the method body runs
Refused(op) ==
    \/ /\ ~Authenticated
       /\ last' = Report(op, "Unauthenticated")
       /\ UNCHANGED <<db, clock, current_user, token, rate_limit_cache, pend, session, req>>
    \/ /\ Authenticated
       /\ RateLimited(current_user[1].account_number)
       /\ last' = Report(op, "RateLimited")
       /\ UNCHANGED <<db, clock, current_user, token, rate_limit_cache, pend, session, req>>

\* both decorators let the call through
Admitted ==
    /\ Authenticated
    /\ ~RateLimited(current_user[1].account_number)

\* the method body ran and returned without writing to the store
Rejects(op, res) ==
    /\ rate_limit_cache' = Stamp(current_user[1].account_number)
    /\ last' = Report(op, res)
    /\ UNCHANGED <<db, clock, current_user, token, pend, session, req>>

(* ------------------------------------------- console: Bank (one process) *)
\* the duplicate test left out
UsernameTaken_Never(s, u) == FALSE

\* SELECT username FROM users WHERE username = ?  (.fetchone() is a row)
UsernameTaken(s, u) == u \in DOMAIN s.users

\* Bank.register, under @error_handler: an exception is printed and swallowed,
\* and the writes made before it stay in the connection's open transaction
ConsoleRegister(u, p, d, fail) ==
    LET s    == ConsStore
        acct == AccountNumber(Now)
        s1   == InsertAccount(s, acct, NewName, d)
        s2   == InsertUser(s1, u, acct, p)
        rep(res) == Report("register", res)
    IN  /\ IF UsernameTaken(s, u)
           THEN /\ last' = rep("DuplicateUsername")
                /\ UNCHANGED <<db, pend>>
           ELSE IF fail = 1 \/ ~AccountInsertable(s, acct)
           THEN /\ pend' = <<s>>
                /\ last' = rep("error")
                /\ UNCHANGED db
           ELSE IF fail = 2 \/ ~UserInsertable(s1, u, acct)
           THEN /\ pend' = <<s1>>
                /\ last' = rep("error")
                /\ UNCHANGED db
           ELSE IF fail = 3
           THEN /\ pend' = <<s2>>
                /\ last' = rep("error")
                /\ UNCHANGED db
           ELSE /\ db' = s2
                /\ pend' = <<>>
                /\ last' = rep("ok")
        /\ UNCHANGED <<clock, current_user, token, rate_limit_cache, session, req>>

\* Bank._generate_token
_generate_token(username, account_number) ==
    [username |-> username, account_number |-> account_number,
     exp |-> Now + TOKEN_EXPIRATION_MINUTES * 60]

\* Bank.login, under @error_handler
ConsoleLogin(u, p) ==
    LET s == ConsStore
        rep(res) == Report("login", res)
    IN  /\ IF u \notin DOMAIN s.users \/ ~_verify_password(s.users[u].password_hash, p)
           THEN /\ last' = rep("InvalidCredentials")
                /\ UNCHANGED <<current_user, token>>
           ELSE LET acct == s.users[u].account_number
                IN  /\ token' = <<_generate_token(u, acct)>>
                    /\ IF acct \in DOMAIN s.accounts
                       THEN /\ current_user' =
                                 <<[username |-> u, account_number |-> acct,
                                    name |-> s.accounts[acct].name,
                                    balance |-> s.accounts[acct].balance,
                                    loaded |-> TRUE]>>
                            /\ last' = rep("ok")
                       ELSE \* account_details is None: the TypeError is swallowed
                            \* after current_user was set without name and balance
                            /\ current_user' =
                                 <<[username |-> u, account_number |-> acct,
                                    name |-> "", balance |-> 0, loaded |-> FALSE]>>
                            /\ last' = rep("error")
        /\ UNCHANGED <<db, clock, rate_limit_cache, pend, session, req>>

\* Bank.logout
ConsoleLogout ==
    /\ current_user' = <<>>
    /\ token' = <<>>
    /\ last' = Report("logout", "ok")
    /\ UNCHANGED <<db, clock, rate_limit_cache, pend, session, req>>

\* the snapshot of login kept as it is
Cached_Stale(delta) == current_user

\* current_user['balance'] after a committed change of delta
Cached(delta) == <<[current_user[1] EXCEPT !.balance = @ + delta]>>

\* the test of deposit letting zero through
ValidDeposit_AllowsZero(amount) == amount >= 0

\* deposit: if amount > 0
ValidDeposit(amount) == amount > 0

\* Bank.deposit: UPDATE, INSERT, commit, then the cached balance
ConsoleDeposit(amount, fail) ==
    \/ Refused("deposit")
    \/ /\ Admitted
       /\ LET acct == current_user[1].account_number
              s1   == UpdateBalance(ConsStore, acct, amount)
              s2   == InsertTransaction(s1, acct, "Deposit", amount, NoRelated)
          IN  IF ValidDeposit(amount)
              THEN IF fail \in 1..3
                   THEN Crash("deposit")
                   ELSE /\ s2.seq <= MaxLog
                        /\ db' = s2
                        /\ IF current_user[1].loaded
                           THEN /\ pend' = <<>>
                                /\ current_user' = Cached(amount)
                                /\ rate_limit_cache' = Stamp(acct)
                                /\ last' = Report("deposit", "ok")
                                /\ UNCHANGED <<clock, token, session, req>>
                           ELSE \* KeyError on current_user['balance'] after the commit
                                /\ pend' = <<>>
                                /\ current_user' = <<>>
                                /\ token' = <<>>
                                /\ rate_limit_cache' = <<>>
                                /\ last' = Report("deposit", "crash")
                                /\ UNCHANGED <<clock, session, req>>
              ELSE Rejects("deposit", "InvalidAmount")

\* Bank.withdraw: the test reads current_user['balance'], the snapshot of login
ConsoleWithdraw(amount, fail) ==
    \/ Refused("withdraw")
    \/ /\ Admitted
       /\ LET acct == current_user[1].account_number
              s1   == UpdateBalance(ConsStore, acct, -amount)
              s2   == InsertTransaction(s1, acct, "Withdraw", amount, NoRelated)
          IN  IF ~current_user[1].loaded
              THEN Crash("withdraw")
              ELSE IF amount > current_user[1].balance
              THEN Rejects("withdraw", "InsufficientFunds")
              ELSE IF amount <= 0
              THEN Rejects("withdraw", "InvalidAmount")
              ELSE IF fail \in 1..3
              THEN Crash("withdraw")
              ELSE /\ s2.seq <= MaxLog
                   /\ db' = s2
                   /\ pend' = <<>>
                   /\ current_user' = Cached(-amount)
                   /\ rate_limit_cache' = Stamp(acct)
                   /\ last' = Report("withdraw", "ok")
                   /\ UNCHANGED <<clock, token, session, req>>

\* the except branch without its rollback: the writes made so far stay in the
\* connection's open transaction
ConsoleTransferFailed_NoRollback(partial) ==
    /\ pend' = <<partial>>
    /\ rate_limit_cache' = Stamp(current_user[1].account_number)
    /\ last' = Report("transfer", "TransferFailed")
    /\ UNCHANGED <<db, clock, current_user, token, session, req>>

\* Bank.transfer_money, the bare except: self.conn.rollback() drops the writes
\* made so far (partial) and the method returns
ConsoleTransferFailed(partial) == Rejects("transfer", "TransferFailed")

\* Bank.transfer_money: three tests, BEGIN, four writes and commit under a bare
\* except that rolls back.  BEGIN stands outside the try: with a transaction
\* already open on the connection it raises and nothing catches it.
ConsoleTransfer(to, amount, fail) ==
    \/ Refused("transfer")
    \/ /\ Admitted
       /\ LET me == current_user[1].account_number
              s  == ConsStore
              s4 == TransferWrites(s, me, to, amount, 4)
          IN  IF to = me
              THEN Rejects("transfer", "SelfTransfer")
              ELSE IF to \notin DOMAIN s.accounts
              THEN Rejects("transfer", "AccountNotFound")
              ELSE IF ~current_user[1].loaded
              THEN Crash("transfer")
              ELSE IF amount > current_user[1].balance
              THEN Rejects("transfer", "InsufficientFunds")
              ELSE IF pend # <<>>
              THEN Crash("transfer")
              ELSE IF fail \in 1..5
              THEN ConsoleTransferFailed(TransferWrites(s, me, to, amount, fail - 1))
              ELSE /\ s4.seq <= MaxLog
                   /\ db' = s4
                   /\ current_user' = Cached(-amount)
                   /\ rate_limit_cache' = Stamp(me)
                   /\ last' = Report("transfer", "ok")
                   /\ UNCHANGED <<clock, token, pend, session, req>>

\* the first n of the three deletions of delete_account for account me:
\* its transaction records, its user row, its account row
DeleteWrites(s, me, n) ==
    LET s1 == DeleteTransactions(s, me)
        s2 == DeleteUser(s1, me)
        s3 == DeleteAccountRow(s2, me)
    IN  CASE n = 0 -> s
          [] n = 1 -> s1
          [] n = 2 -> s2
          [] OTHER -> s3

\* the except branch without its rollback: the deletions made so far stay in
\* the connection's open transaction
ConsoleDeleteFailed_NoRollback(partial) ==
    /\ pend' = <<partial>>
    /\ last' = Report("delete", "DeleteFailed")
    /\ UNCHANGED <<db, clock, current_user, token, rate_limit_cache, session, req>>

\* Bank.delete_account, the bare except: self.conn.rollback() drops the
\* deletions made so far (partial) and the method returns
ConsoleDeleteFailed(partial) ==
    /\ last' = Report("delete", "DeleteFailed")
    /\ UNCHANGED <<db, clock, current_user, token, rate_limit_cache, pend, session, req>>

\* Bank.delete_account: @authenticate only; confirmation, BEGIN, three deletes
\* and commit under a bare except that rolls back, then logout
ConsoleDelete(confirm, fail) ==
    LET rep(res) == Report("delete", res)
    IN  IF ~Authenticated
        THEN /\ last' = rep("Unauthenticated")
             /\ UNCHANGED <<db, clock, current_user, token, rate_limit_cache, pend, session, req>>
        ELSE IF ~confirm
        THEN /\ last' = rep("cancelled")
             /\ UNCHANGED <<db, clock, current_user, token, rate_limit_cache, pend, session, req>>
        ELSE IF pend # <<>>
        THEN Crash("delete")
        ELSE IF fail \in 1..4
        THEN ConsoleDeleteFailed(DeleteWrites(db, current_user[1].account_number,
                                              fail - 1))
        ELSE LET me == current_user[1].account_number
             IN  /\ db' = DeleteWrites(db, me, 3)
                 /\ current_user' = <<>>
                 /\ token' = <<>>
                 /\ last' = rep("ok")
                 /\ UNCHANGED <<clock, rate_limit_cache, pend, session, req>>

\* Bank.get_account_balance, Bank.display_account_details: @authenticate only;
\* they print the snapshot kept in current_user
ConsoleBalance ==
    IF ~Authenticated
    THEN /\ last' = Report("balance", "Unauthenticated")
         /\ UNCHANGED <<db, clock, current_user, token, rate_limit_cache, pend, session, req>>
    ELSE IF ~current_user[1].loaded
    THEN Crash("balance")
    ELSE /\ last' = [op |-> "balance", res |-> "ok",
                      balance |-> current_user[1].balance]
         /\ UNCHANGED <<db, clock, current_user, token, rate_limit_cache, pend, session, req>>

\* Bank.get_transaction_history: @authenticate only; a SELECT and prints
ConsoleHistory ==
    /\ IF ~Authenticated
       THEN last' = ReportRows("history", "Unauthenticated", <<>>)
       ELSE \E rows \in SelectHistory(ConsStore, current_user[1].account_number,
                                      HistoryLimit) :
               last' = ReportRows("history",
                                  IF rows = <<>> THEN "NoTransactions" ELSE "ok",
                                  rows)
    /\ UNCHANGED <<db, clock, current_user, token, rate_limit_cache, pend, session, req>>

\* choice 3 of the login menu, then a new run of the script: close_connection
\* drops what was not committed, a fresh process has an empty rate_limit_cache,
\* and initialize_database returns at once because the tables exist
ConsoleRestart ==
    /\ pend' = <<>>
    /\ current_user' = <<>>
    /\ token' = <<>>
    /\ rate_limit_cache' = <<>>
    /\ last' = Report("restart", "ok")
    /\ UNCHANGED <<db, clock, session, req>>

\* time passes
Tick ==
    /\ clock < MaxTicks
    /\ clock' = clock + 1
    /\ last' = Report("tick", "ok")
    /\ UNCHANGED <<db, current_user, token, rate_limit_cache, pend, session, req>>

\* Bank._verify_token: jwt.decode raises ExpiredSignatureError from exp on
Expired(payload) == Now >= payload.exp

\* the console is left alone for as long as a token lives
Wait ==
    /\ clock < TOKEN_EXPIRATION_MINUTES * 60
    /\ clock' = clock + TOKEN_EXPIRATION_MINUTES * 60
    /\ last' = Report("wait", "ok")
    /\ UNCHANGED <<db, current_user, token, rate_limit_cache, pend, session, req>>

(* ------------------------------------ web: app.py (a connection per request) *)
\* a write of a request waits for the lock that the console's open transaction
\* holds and then raises "database is locked"
WebLocked == pend # <<>>

\* 'username' in session
LoggedIn(w) == session[w] # <<>>

\* SELECT balance FROM accounts WHERE account_number = ?  (.fetchone())
ReadBalance(s, acct) ==
    IF acct \in DOMAIN s.accounts THEN <<s.accounts[acct].balance>> ELSE <<>>

\* the request ended without a commit: its connection is dropped
WebNoWrite(op, res) ==
    /\ last' = Report(op, res)
    /\ UNCHANGED <<db, clock, current_user, token, rate_limit_cache, pend, session>>

\* the request committed store s
WebCommit(op, s) ==
    /\ s.seq <= MaxLog
    /\ db' = s
    /\ last' = Report(op, "ok")
    /\ UNCHANGED <<clock, current_user, token, rate_limit_cache, pend, session>>

\* login()
WebLogin(w, u, p) ==
    /\ IF u \in DOMAIN db.users /\ db.users[u].password_hash = hash_password(p)
       THEN /\ session' = [session EXCEPT ![w] =
                              <<[username |-> u,
                                 account_number |-> db.users[u].account_number]>>]
            /\ last' = Report("login", "ok")
       ELSE /\ last' = Report("login", "InvalidCredentials")
            /\ UNCHANGED session
    /\ UNCHANGED <<db, clock, current_user, token, rate_limit_cache, pend, req>>

\* logout(): session.clear()
WebLogout(w) ==
    /\ session' = [session EXCEPT ![w] = <<>>]
    /\ last' = Report("logout", "ok")
    /\ UNCHANGED <<db, clock, current_user, token, rate_limit_cache, pend, req>>

\* dashboard(): two SELECTs and the page
WebDashboard(w) ==
    /\ IF ~LoggedIn(w)
       THEN last' = ReportRows("dashboard", "Unauthenticated", <<>>)
       ELSE \E rows \in SelectHistory(db, session[w][1].account_number,
                                      DashboardLimit) :
               last' = ReportRows("dashboard", "ok", rows)
    /\ UNCHANGED <<db, clock, current_user, token, rate_limit_cache, pend, session, req>>

\* register(): no try; an exception ends the request before the commit
WebRegister(w, u, p, d, fail) ==
    LET acct == AccountNumber(Now)
        s1   == InsertAccount(db, acct, NewName, d)
        s2   == InsertUser(s1, u, acct, p)
    IN  /\ IF UsernameTaken(db, u)
           THEN WebNoWrite("register", "DuplicateUsername")
           ELSE IF \/ fail \in 1..3
                   \/ WebLocked
                   \/ ~AccountInsertable(db, acct)
                   \/ ~UserInsertable(s1, u, acct)
           THEN WebNoWrite("register", "http500")
           ELSE WebCommit("register", s2)
        /\ UNCHANGED req

\* deposit()
WebDeposit(w, amount, fail) ==
    /\ IF ~LoggedIn(w)
       THEN WebNoWrite("deposit", "Unauthenticated")
       ELSE IF ~ValidDeposit(amount)
       THEN WebNoWrite("deposit", "InvalidAmount")
       ELSE IF fail \in 1..3 \/ WebLocked
       THEN WebNoWrite("deposit", "http500")
       ELSE LET acct == session[w][1].account_number
                s1   == UpdateBalance(db, acct, amount)
            IN  WebCommit("deposit",
                          InsertTransaction(s1, acct, "Deposit", amount, NoRelated))
    /\ UNCHANGED req

\* withdraw(), from the row that its SELECT returned (read) to the end
WithdrawDecide(w, amount, read, fail) ==
    IF amount <= 0
    THEN WebNoWrite("withdraw", "InvalidAmount")
    ELSE IF read = <<>>
    THEN \* account is None: account['balance'] raises TypeError
         WebNoWrite("withdraw", "http500")
    ELSE IF amount > read[1]
    THEN WebNoWrite("withdraw", "InsufficientFunds")
    ELSE IF fail \in 1..3 \/ WebLocked
    THEN WebNoWrite("withdraw", "http500")
    ELSE LET acct == session[w][1].account_number
             s1   == UpdateBalance(db, acct, -amount)
         IN  WebCommit("withdraw",
                       InsertTransaction(s1, acct, "Withdrawal", amount, NoRelated))

\* withdraw(), a request served alone
WebWithdraw(w, amount, fail) ==
    /\ IF ~LoggedIn(w)
       THEN WebNoWrite("withdraw", "Unauthenticated")
       ELSE WithdrawDecide(w, amount,
                           ReadBalance(db, session[w][1].account_number), fail)
    /\ UNCHANGED req

\* transfer(), from the rows that its two SELECTs returned to the end
TransferDecide(w, to, amount, found, read, fail) ==
    LET me == session[w][1].account_number
        s4 == TransferWrites(db, me, to, amount, 4)
    IN  IF to = me
        THEN WebNoWrite("transfer", "SelfTransfer")
        ELSE IF ~found
        THEN WebNoWrite("transfer", "AccountNotFound")
        ELSE IF read = <<>>
        THEN \* fetchone() is None: ['balance'] raises TypeError outside the try
             WebNoWrite("transfer", "http500")
        ELSE IF amount > read[1]
        THEN WebNoWrite("transfer", "InsufficientFunds")
        ELSE IF fail \in 1..5 \/ WebLocked
        THEN \* except: conn.rollback()
             WebNoWrite("transfer", "TransferFailed")
        ELSE WebCommit("transfer", s4)

\* transfer(), a request served alone
WebTransfer(w, to, amount, fail) ==
    /\ IF ~LoggedIn(w)
       THEN WebNoWrite("transfer", "Unauthenticated")
       ELSE TransferDecide(w, to, amount, to \in DOMAIN db.accounts,
                           ReadBalance(db, session[w][1].account_number), fail)
    /\ UNCHANGED req

\* python app.py: initialize_database drops and recreates the three tables and
\* inserts the sample rows; app.secret_key is drawn anew, so no cookie signed
\* by the previous process is accepted.  The DROP needs the write lock.
WebStartup ==
    /\ pend = <<>>
    /\ db' = SeedDb
    /\ session' = [w \in WebSessions |-> <<>>]
    /\ req' = [w \in WebSessions |-> <<>>]
    /\ last' = Report("webstart", "ok")
    /\ UNCHANGED <<clock, current_user, token, rate_limit_cache, pend>>

(* ---------------------------------------- web: requests served concurrently *)
\* withdraw() up to and including its SELECT
WithdrawRead(w, amount) ==
    /\ LoggedIn(w)
    /\ req[w] = <<>>
    /\ req' = [req EXCEPT ![w] =
                 <<[op |-> "withdraw", amount |-> amount, to |-> 0, found |-> TRUE,
                    read |-> ReadBalance(db, session[w][1].account_number)]>>]
    /\ last' = Report("withdraw-read", "pending")
    /\ UNCHANGED <<db, clock, current_user, token, rate_limit_cache, pend, session>>

\* withdraw() after its SELECT: the writes and the commit hold the write lock
WithdrawWrite(w, fail) ==
    /\ req[w] # <<>>
    /\ req[w][1].op = "withdraw"
    /\ WithdrawDecide(w, req[w][1].amount, req[w][1].read, fail)
    /\ req' = [req EXCEPT ![w] = <<>>]

\* transfer() up to and including its two SELECTs
TransferRead(w, to, amount) ==
    /\ LoggedIn(w)
    /\ req[w] = <<>>
    /\ req' = [req EXCEPT ![w] =
                 <<[op |-> "transfer", amount |-> amount, to |-> to,
                    found |-> to \in DOMAIN db.accounts,
                    read |-> ReadBalance(db, session[w][1].account_number)]>>]
    /\ last' = Report("transfer-read", "pending")
    /\ UNCHANGED <<db, clock, current_user, token, rate_limit_cache, pend, session>>

\* transfer() after its SELECTs
TransferWrite(w, fail) ==
    /\ req[w] # <<>>
    /\ req[w][1].op = "transfer"
    /\ TransferDecide(w, req[w][1].to, req[w][1].amount, req[w][1].found,
                      req[w][1].read, fail)
    /\ req' = [req EXCEPT ![w] = <<>>]

(* ------------------------------------------------------- specifications *)
\* account numbers a caller may name: the sample account, the registered one
\* and one that no row carries
Targets == {SeedAccount, AccountNumber(Epoch - 1), AccountNumber(Epoch)}

\* which write of an operation raises (0: none)
Fail3 == {0, 2}
Fail4 == {0, 2}
Fail5 == {0, 3}

\* the browser of the runs in which requests are served one at a time
Browser == CHOOSE w \in WebSessions : \A v \in WebSessions : w <= v

\* the store after register("alice", "pw", "Alice", 1) one second before the
\* model starts
Registered ==
    InsertUser(InsertAccount(SeedDb, AccountNumber(Epoch - 1), NewName, 1),
               "alice", AccountNumber(Epoch - 1), "pw")

Idle ==
    /\ clock = 0
    /\ current_user = <<>>
    /\ token = <<>>
    /\ rate_limit_cache = <<>>
    /\ pend = <<>>
    /\ session = [w \in WebSessions |-> <<>>]
    /\ req = [w \in WebSessions |-> <<>>]
    /\ last = Report("init", "ok")

Init ==
    /\ db = SeedDb
    /\ Idle

InitLedger ==
    /\ db = Registered
    /\ Idle

ConsoleLedger ==
    \/ \E u \in Usernames, p \in Passwords : ConsoleLogin(u, p)
    \/ \E a \in Amounts, f \in Fail3 : ConsoleDeposit(a, f)
    \/ \E a \in Amounts, f \in Fail3 : ConsoleWithdraw(a, f)
    \/ \E t \in Targets, a \in Amounts, f \in Fail5 : ConsoleTransfer(t, a, f)
    \/ \E c \in BOOLEAN, f \in Fail4 : ConsoleDelete(c, f)
    \/ ConsoleRestart

WebLedger(w) ==
    \/ \E u \in Usernames, p \in Passwords : WebLogin(w, u, p)
    \/ \E a \in Amounts, f \in Fail3 : WebDeposit(w, a, f)
    \/ \E a \in Amounts, f \in Fail3 : WebWithdraw(w, a, f)
    \/ \E t \in Targets, a \in Amounts, f \in Fail5 : WebTransfer(w, t, a, f)

\* the ledger operations of both front-ends, one call or request at a time
Next ==
    \/ ConsoleLedger
    \/ WebLedger(Browser)

Spec == InitLedger /\ [][Next]_vars

(* ------------------------------------------------ vocabulary of the claims *)
Exists(acct) == acct \in DOMAIN db.accounts

Stored(acct) == db.accounts[acct].balance

\* the rows that a step appended to the transaction log
Appended == SubSeq(db'.log, Len(db.log) + 1, Len(db'.log))

\* the account of the console's identity, of a browser's identity
ConsoleAccount == current_user[1].account_number

WebAccount(w) == session[w][1].account_number

StoreUnchanged == db' = db

Reports(res) == last'.res = res

\* the step is a call of op (every operation names itself in last)
Called(op) == last'.op = op

(* ----------------------------------------------------------------- C1 *)
\* C1: in every reachable state every stored account balance is >= 0.
C1_BalancesNonNegative ==
    \A acct \in DOMAIN db.accounts : db.accounts[acct].balance >= 0

(* ----------------------------------------------------------------- C2 *)
\* what C2 says of a deposit call of amount
C2_DepositSum(amount) ==
    IF Reports("ok")
    THEN TotalBalance(db') = TotalBalance(db) + amount
    ELSE TotalBalance(db') = TotalBalance(db)

\* what C2 says of a withdraw call of amount
C2_WithdrawSum(amount) ==
    IF Reports("ok")
    THEN TotalBalance(db') = TotalBalance(db) - amount
    ELSE TotalBalance(db') = TotalBalance(db)

\* C2: the sum of all stored balances is unchanged by every transfer call,
\* grows by exactly the amount on a successful deposit, shrinks by exactly the
\* amount on a successful withdraw, and is unchanged by a rejected deposit or
\* withdraw.
C2_SumOfBalances ==
    [][/\ Called("transfer") => TotalBalance(db') = TotalBalance(db)
       /\ Called("deposit") =>
            \A a \in Amounts, f \in Fail3 :
               (ConsoleDeposit(a, f) \/ WebDeposit(Browser, a, f)) => C2_DepositSum(a)
       /\ Called("withdraw") =>
            \A a \in Amounts, f \in Fail3 :
               (ConsoleWithdraw(a, f) \/ WebWithdraw(Browser, a, f)) => C2_WithdrawSum(a)
      ]_vars

(* ----------------------------------------------------------------- C3 *)
\* what C3 says of a transfer of amount from account me to account to
C3_Effect(me, to, amount) ==
    /\ db'.accounts[me].balance = Stored(me) - amount
    /\ db'.accounts[to].balance = Stored(to) + amount
    /\ Len(Appended) = 2
    /\ \E i, j \in 1 .. 2 :
          /\ i # j
          /\ Appended[i].account_number = me
          /\ Appended[i].type = "Transfer Sent"
          /\ Appended[i].related_account = Related(to)
          /\ Appended[i].amount = amount
          /\ Appended[j].account_number = to
          /\ Appended[j].type = "Transfer Received"
          /\ Appended[j].related_account = Related(me)
          /\ Appended[j].amount = amount

\* the case of C3: sender and recipient are distinct existing accounts and the
\* sender's stored balance covers the amount
C3_Case(me, to, amount) ==
    /\ to # me
    /\ Exists(me)
    /\ Exists(to)
    /\ Stored(me) >= amount

\* C3: every transfer from an authenticated sender to a distinct existing
\* recipient with sender stored balance >= amount (a call the rate guard lets
\* through and in which no write of the store fails) debits the sender, credits
\* the recipient and appends exactly the two cross-referenced records.
C3_TransferEffect ==
    [][Called("transfer") => \A t \in Targets, a \in Amounts :
          /\ (/\ Admitted
              /\ C3_Case(ConsoleAccount, t, a)
              /\ ConsoleTransfer(t, a, 0))
                => C3_Effect(ConsoleAccount, t, a)
          /\ (/\ LoggedIn(Browser)
              /\ C3_Case(WebAccount(Browser), t, a)
              /\ WebTransfer(Browser, t, a, 0))
                => C3_Effect(WebAccount(Browser), t, a)
      ]_vars

(* ----------------------------------------------------------------- C5 *)
\* the case of C5: an authenticated caller, a distinct existing recipient,
\* amount <= 0
C5_Case(me, to, amount) ==
    /\ to # me
    /\ Exists(to)
    /\ amount <= 0

\* C5: a transfer with amount <= 0 to a distinct, existing recipient fails with
\* InvalidAmount and leaves the balances and the transaction log unchanged.
C5_NonPositiveTransfer ==
    [][Called("transfer") => \A t \in Targets, a \in Amounts, f \in Fail5 :
          /\ (/\ Admitted
              /\ C5_Case(ConsoleAccount, t, a)
              /\ ConsoleTransfer(t, a, f))
                => (Reports("InvalidAmount") /\ StoreUnchanged)
          /\ (/\ LoggedIn(Browser)
              /\ C5_Case(WebAccount(Browser), t, a)
              /\ WebTransfer(Browser, t, a, f))
                => (Reports("InvalidAmount") /\ StoreUnchanged)
      ]_vars

(* ----------------------------------------------------------------- C6 *)
\* the case of C6: the caller's account exists and the (positive) amount
\* exceeds its stored balance
C6_Case(me, amount) ==
    /\ Exists(me)
    /\ amount > 0
    /\ amount > Stored(me)

\* C6: a withdraw or a transfer (to a distinct existing recipient) whose amount
\* exceeds the account's current stored balance leaves every balance and the
\* transaction log unchanged and reports InsufficientFunds (a call the rate
\* guard lets through and in which no write of the store fails).
C6_InsufficientFunds ==
    [][/\ Called("withdraw") => \A a \in Amounts :
            /\ (Admitted /\ C6_Case(ConsoleAccount, a) /\ ConsoleWithdraw(a, 0))
                  => (Reports("InsufficientFunds") /\ StoreUnchanged)
            /\ (LoggedIn(Browser) /\ C6_Case(WebAccount(Browser), a)
                  /\ WebWithdraw(Browser, a, 0))
                  => (Reports("InsufficientFunds") /\ StoreUnchanged)
       /\ Called("transfer") => \A t \in Targets, a \in Amounts :
            /\ (Admitted /\ C6_Case(ConsoleAccount, a)
                  /\ t # ConsoleAccount /\ Exists(t) /\ ConsoleTransfer(t, a, 0))
                  => (Reports("InsufficientFunds") /\ StoreUnchanged)
            /\ (LoggedIn(Browser) /\ C6_Case(WebAccount(Browser), a)
                  /\ t # WebAccount(Browser) /\ Exists(t)
                  /\ WebTransfer(Browser, t, a, 0))
                  => (Reports("InsufficientFunds") /\ StoreUnchanged)
      ]_vars

(* ----------------------------------------------------------------- C7 *)
\* C7: a withdraw(amount) with amount > 0 by an authenticated identity (a call
\* the rate guard lets through and in which no write of the store fails) is
\* accepted if and only if amount <= the balance stored at the time of the call.
C7_FreshBalanceCheck ==
    [][Called("withdraw") => \A a \in Amounts :
          /\ (Admitted /\ Exists(ConsoleAccount) /\ a > 0 /\ ConsoleWithdraw(a, 0))
                => (Reports("ok") <=> a <= Stored(ConsoleAccount))
          /\ (LoggedIn(Browser) /\ Exists(WebAccount(Browser)) /\ a > 0
                /\ WebWithdraw(Browser, a, 0))
                => (Reports("ok") <=> a <= Stored(WebAccount(Browser)))
      ]_vars

(* ----------------------------------------------------------------- C4 *)
\* C4: a transfer is all-or-nothing.  A transfer call that does not report
\* success (one of whose writes failed, or that a test turned down) leaves the
\* committed store as it was and leaves none of its writes in an open
\* transaction of the connection, so that no later commit can persist them; a
\* call that reports success appended both records; hence a transfer call
\* appends two records or none, never one.
C4_TransferAtomic ==
    [][Called("transfer") =>
          /\ Len(db'.log) - Len(db.log) \in {0, 2}
          /\ Reports("ok") => Len(db'.log) - Len(db.log) = 2
          /\ ~Reports("ok") => (StoreUnchanged /\ pend' \in {<<>>, pend})
      ]_vars

\* a transfer in which a write failed has just been rolled back
C4_Witness ==
    /\ last = Report("transfer", "TransferFailed")
    /\ pend = <<>>

(* ----------------------------------------------------------------- C9 *)
\* what C9 says of a deposit of amount by the identity of account me
C9_Effect(me, amount) ==
    \/ /\ Exists(me)
       /\ me \in DOMAIN db'.accounts
       /\ db'.accounts[me].balance = Stored(me) + amount
       /\ Len(Appended) = 1
       /\ Appended[1].account_number = me
       /\ Appended[1].type = "Deposit"
       /\ Appended[1].amount = amount
    \/ /\ StoreUnchanged
       /\ pend' \in {<<>>, pend}

\* C9: after any deposit call either the balance is increased by amount and
\* exactly one Deposit record with that amount is appended, or neither change
\* is in the store nor left to be committed later.
C9_DepositAtomic ==
    [][Called("deposit") => \A a \in Amounts, f \in Fail3 :
          /\ (Authenticated /\ ConsoleDeposit(a, f)) => C9_Effect(ConsoleAccount, a)
          /\ (LoggedIn(Browser) /\ WebDeposit(Browser, a, f))
                => C9_Effect(WebAccount(Browser), a)
      ]_vars

(* ---------------------------------------------------------------- C10 *)
\* the deposit, withdraw calls of either front-end
C10_Deposit(a, f) == ConsoleDeposit(a, f) \/ WebDeposit(Browser, a, f)

C10_Withdraw(a, f) == ConsoleWithdraw(a, f) \/ WebWithdraw(Browser, a, f)

\* a transfer call that names the caller's own account or no account
C10_Transfer(t, a, f) ==
    \/ /\ Authenticated
       /\ t = ConsoleAccount \/ ~Exists(t)
       /\ ConsoleTransfer(t, a, f)
    \/ /\ LoggedIn(Browser)
       /\ t = WebAccount(Browser) \/ ~Exists(t)
       /\ WebTransfer(Browser, t, a, f)

\* C10: a deposit with amount <= 0, a withdraw with amount <= 0, a transfer to
\* the caller's own account and a transfer to a non-existent account each leave
\* the accounts, the users and the transaction log unchanged, and leave no
\* write to be committed later.
\* (a step either writes nothing or is none of the four calls)
C10_RejectionsWriteNothing ==
    [][\/ StoreUnchanged /\ pend' = pend
       \/ /\ Called("deposit") =>
               \A a \in Amounts, f \in Fail3 : ~(a <= 0 /\ C10_Deposit(a, f))
          /\ Called("withdraw") =>
               \A a \in Amounts, f \in Fail3 : ~(a <= 0 /\ C10_Withdraw(a, f))
          /\ Called("transfer") =>
               \A t \in Targets, a \in Amounts, f \in Fail5 : ~C10_Transfer(t, a, f)
      ]_vars

\* a deposit of a non-positive amount has just been turned down
C10_Witness ==
    /\ last = Report("deposit", "InvalidAmount")
    /\ db.log = <<>>

(* ----------------------------------------------------------------- C8 *)
\* amounts of the concurrent runs: positive only, so that a balance can fall
\* below zero only through the interleaving of two requests
PositiveAmounts == {a \in Amounts : a > 0}

\* two browsers whose withdraw and transfer requests are served by separate
\* threads, each on its own connection: the SELECTs of a request and its
\* writes are separate steps
NextConc ==
    \E w \in WebSessions :
        \/ \E u \in Usernames, p \in Passwords : WebLogin(w, u, p)
        \/ \E a \in PositiveAmounts : WithdrawRead(w, a)
        \/ \E f \in Fail3 : WithdrawWrite(w, f)
        \/ \E t \in Targets, a \in PositiveAmounts : TransferRead(w, t, a)
        \/ \E f \in Fail5 : TransferWrite(w, f)

SpecConc == InitLedger /\ [][NextConc]_vars

\* C8: no interleaving of two balance-check-then-write operations on the same
\* account (withdraws or outgoing transfers of positive amounts, from separate
\* sessions) makes a stored balance negative or loses an update: every
\* committed write moves the balance by its amount from the value stored
\* when it is written.
C8_NoHarmfulInterleaving ==
    [][(Called("withdraw") \/ Called("transfer")) =>
          /\ \A acct \in DOMAIN db'.accounts : db'.accounts[acct].balance >= 0
          /\ \A w \in WebSessions :
                (req[w] # <<>> /\ req' # req /\ req'[w] = <<>> /\ Reports("ok"))
                   => db'.accounts[WebAccount(w)].balance
                         = Stored(WebAccount(w)) - req[w][1].amount
      ]_vars

(* ------------------------------------------- registration and deletion *)
\* usernames of the registration runs: the sample user, whose name is taken
\* until the account is deleted, and a new one
RegNames == Usernames

\* the password of the new users
RegPasswords == {"pw"}

\* initial deposits of the registration runs: register takes initial_deposit >= 0
RegDeposits == {d \in InitialDeposits : d >= 0}

\* which statement of register raises (0: none; 2: the user insert; 3: commit)
FailReg == {0, 2, 3}

\* accounts are opened and closed while the clock runs: both register handlers,
\* the console's login, delete_account and restart
NextReg ==
    \/ \E u \in RegNames, p \in RegPasswords, d \in RegDeposits, f \in FailReg :
          ConsoleRegister(u, p, d, f)
    \/ \E u \in RegNames, p \in RegPasswords, d \in RegDeposits, f \in FailReg :
          WebRegister(Browser, u, p, d, f)
    \/ \E u \in RegNames, p \in Passwords : ConsoleLogin(u, p)
    \/ \E c \in BOOLEAN, f \in Fail4 : ConsoleDelete(c, f)
    \/ ConsoleRestart
    \/ Tick

SpecReg == Init /\ [][NextReg]_vars

(* ---------------------------------------------------------------- C11 *)
\* the accounts and users tables are as they were, in the file and in the
\* console's open transaction
C11_TablesUnchanged ==
    /\ db'.accounts = db.accounts
    /\ db'.users = db.users
    /\ pend' = pend

\* C11: a register call, of the console or of the web, with a username that a
\* user row of the store already carries reports DuplicateUsername and leaves
\* the accounts and users tables unchanged.
C11_DuplicateUsername ==
    [][Called("register") =>
          \A u \in RegNames, p \in RegPasswords, d \in RegDeposits, f \in FailReg :
              (/\ u \in DOMAIN db.users
               /\ ConsoleRegister(u, p, d, f) \/ WebRegister(Browser, u, p, d, f))
                 => (Reports("DuplicateUsername") /\ C11_TablesUnchanged)
      ]_vars

\* a register call has just been turned down for its username
C11_Witness ==
    /\ last = Report("register", "DuplicateUsername")
    /\ "test" \in DOMAIN db.users

(* ---------------------------------------------------------------- C12 *)
\* C12: register creates the account row and the user row as one unit: in
\* every reachable state of the store (after any register call, and after any
\* commit that follows it on the same connection) every account row has its
\* user row, so no account row is ever persisted without its user row.
C12_RegisterAtomic ==
    \A acct \in DOMAIN db.accounts :
        \E u \in DOMAIN db.users : db.users[u].account_number = acct

(* ---------------------------------------------------------------- C13 *)
\* C13: in every reachable state each user row's account identifier names an
\* existing account row, and no two user rows name the same account.
C13_UsersOneToOne ==
    /\ \A u \in DOMAIN db.users : db.users[u].account_number \in DOMAIN db.accounts
    /\ \A u, v \in DOMAIN db.users :
          db.users[u].account_number = db.users[v].account_number => u = v

\* the sample account has been deleted and a registered user is in the store
C13_Witness ==
    /\ last = Report("delete", "ok")
    /\ "test" \notin DOMAIN db.users
    /\ "alice" \in DOMAIN db.users

(* ---------------------------------------------------------------- C14 *)
\* the call registered u under an account identifier that no account row carried
C14_FreshAccount(u) ==
    /\ Reports("ok")
    /\ u \in DOMAIN db'.users
    /\ db'.users[u].account_number \in DOMAIN db'.accounts \ DOMAIN db.accounts

\* C14: every register call with a username not yet present (no statement of
\* the store failing, no transaction left open by an earlier failure) succeeds
\* and assigns an account identifier that no row of the accounts table carries,
\* whatever the clock reads, also in the second of an earlier registration.
C14_RegisterFresh ==
    [][Called("register") =>
          \A u \in RegNames, p \in RegPasswords, d \in RegDeposits :
              (/\ u \notin DOMAIN db.users
               /\ pend = <<>>
               /\ ConsoleRegister(u, p, d, 0) \/ WebRegister(Browser, u, p, d, 0))
                 => C14_FreshAccount(u)
      ]_vars

(* ------------------------------------------- sessions, expiry, rate guard *)
\* the console's menu, no statement of the store failing
ConsoleAuth ==
    \/ \E u \in Usernames, p \in Passwords : ConsoleLogin(u, p)
    \/ ConsoleLogout
    \/ \E a \in PositiveAmounts : ConsoleDeposit(a, 0)
    \/ \E a \in PositiveAmounts : ConsoleWithdraw(a, 0)
    \/ \E t \in Targets, a \in PositiveAmounts : ConsoleTransfer(t, a, 0)
    \/ ConsoleBalance
    \/ ConsoleHistory
    \/ \E c \in BOOLEAN : ConsoleDelete(c, 0)

\* the console while the clock runs, second by second and past the lifetime
\* of a token
NextExpiry ==
    \/ ConsoleAuth
    \/ Tick
    \/ Wait

SpecExpiry == InitLedger /\ [][NextExpiry]_vars

\* a browser that never logs in
Visitor == CHOOSE w \in WebSessions : w # Browser

\* requests of a browser without a session
VisitorRequests ==
    \/ \E a \in PositiveAmounts : WebDeposit(Visitor, a, 0)
    \/ \E a \in PositiveAmounts : WebWithdraw(Visitor, a, 0)
    \/ \E t \in Targets, a \in PositiveAmounts : WebTransfer(Visitor, t, a, 0)
    \/ WebDashboard(Visitor)

\* the console, a browser that logs in and out, and a browser without a
\* session (neither @authenticate nor the session test of a handler reads
\* the clock)
NextAuth ==
    \/ ConsoleAuth
    \/ \E u \in Usernames, p \in Passwords : WebLogin(Browser, u, p)
    \/ WebLogout(Browser)
    \/ WebDashboard(Browser)
    \/ VisitorRequests

SpecAuth == InitLedger /\ [][NextAuth]_vars

(* ---------------------------------------------------------------- C15 *)
\* the operations that need an authenticated identity
C15_Gated == {"deposit", "withdraw", "transfer", "history", "balance", "delete"}

\* C15: once the expiry of the session credential issued at login (30 minutes
\* after issuance) has passed, every gated operation is refused and changes
\* neither the store nor the session, until the user logs in again.
C15_ExpiredIsRefused ==
    [][(/\ token # <<>>
        /\ Now > token[1].exp
        /\ last'.op \in C15_Gated)
          => (/\ last'.res \in {"Unauthenticated", "SessionExpired"}
              /\ StoreUnchanged
              /\ UNCHANGED <<current_user, token, rate_limit_cache, pend>>)
      ]_vars

(* ---------------------------------------------------------------- C16 *)
\* the records that an attempt of identity acct wrote: its deposits, its
\* withdrawals and the transfers it sent
C16_AttemptOf(r, acct) ==
    /\ r.account_number = acct
    /\ r.type # "Transfer Received"

\* the step is a console call of deposit, withdraw or transfer_money
C16_ConsoleAttempt ==
    \/ Called("deposit") /\ \E a \in Amounts, f \in Fail3 : ConsoleDeposit(a, f)
    \/ Called("withdraw") /\ \E a \in Amounts, f \in Fail3 : ConsoleWithdraw(a, f)
    \/ Called("transfer")
         /\ \E t \in Targets, a \in Amounts, f \in Fail5 : ConsoleTransfer(t, a, f)

\* C16: a deposit, withdraw or transfer attempt of an identity that arrives
\* less than 2 time units after the previous attempt of that identity that the
\* rate guard accepted is rejected and leaves the store unchanged, whatever the
\* two operations are; a rejection is never caused by another identity's
\* attempts.  (An attempt that wrote a record was accepted by the guard, so no
\* step writes a record for an identity that wrote one less than 2 time units
\* before.)
C16_RateGuard ==
    [][/\ (Authenticated /\ RateLimited(ConsoleAccount) /\ C16_ConsoleAttempt)
             => (Reports("RateLimited") /\ StoreUnchanged)
       /\ Len(db'.log) > Len(db.log) =>
             LET r == db'.log[Len(db.log) + 1]
             IN  \A i \in 1..Len(db.log) :
                    C16_AttemptOf(db.log[i], r.account_number)
                       => r.timestamp - db.log[i].timestamp >= RateLimitInterval
       /\ Reports("RateLimited") => (Authenticated /\ RateLimited(ConsoleAccount))
      ]_vars

(* ---------------------------------------------------------------- C17 *)
\* the store, the console's open transaction and the rate-limit cache are as
\* they were
C17_NothingChanged ==
    /\ db' = db
    /\ pend' = pend
    /\ rate_limit_cache' = rate_limit_cache

\* C17: while no identity is authenticated (before the first login, after
\* logout, after a failed login, after delete_account), deposit, withdraw,
\* transfer, history, balance query and deleteAccount change neither the
\* store nor the rate-limit cache: a step of one of these operations that
\* changes either is a call of the console with an identity, and no request
\* of a browser without a session.
C17_Unauthenticated ==
    [][last'.op \in C15_Gated \cup {"dashboard"} =>
          \/ C17_NothingChanged
          \/ Authenticated /\ ~VisitorRequests
      ]_vars

\* a call has been refused for want of an identity after an account was deleted
C17_Witness ==
    /\ last = Report("withdraw", "Unauthenticated")
    /\ current_user = <<>>
    /\ rate_limit_cache # <<>>
    /\ SeedAccount \notin DOMAIN db.accounts

(* ---------------------------------------------------------------- C18 *)
\* a user row of store s carries username u and the hash of password p
C18_Verified(s, u, p) ==
    /\ u \in DOMAIN s.users
    /\ s.users[u].password_hash = <<"sha256", p>>

\* C18: a login (of the console, of the web) establishes an identity if and
\* only if a user row with the username exists and its stored verifier is the
\* hash of the supplied password; on success the identity's username and
\* account identifier are those of that user row, on failure the identity the
\* session had is left as it was.
C18_Authenticate ==
    [][Called("login") =>
          \A u \in Usernames, p \in Passwords :
              /\ ConsoleLogin(u, p) =>
                    IF C18_Verified(ConsStore, u, p)
                    THEN /\ Reports("ok")
                         /\ current_user' # <<>>
                         /\ current_user'[1].username = u
                         /\ current_user'[1].account_number
                               = ConsStore.users[u].account_number
                    ELSE /\ Reports("InvalidCredentials")
                         /\ UNCHANGED <<current_user, token>>
              /\ WebLogin(Browser, u, p) =>
                    IF C18_Verified(db, u, p)
                    THEN /\ Reports("ok")
                         /\ session'[Browser] =
                               <<[username |-> u,
                                  account_number |-> db.users[u].account_number]>>
                    ELSE /\ Reports("InvalidCredentials")
                         /\ UNCHANGED session
      ]_vars

\* a login with a wrong password has failed while another identity was logged
\* in, which stays logged in
C18_Witness ==
    /\ last = Report("login", "InvalidCredentials")
    /\ current_user # <<>>
    /\ current_user[1].username = "alice"
    /\ session[Browser] # <<>>

(* ---------------------------------------------------------------- C19 *)
\* the accounts of the ledger runs; none is opened during a run, so one that
\* is not in the accounts table has been deleted by delete_account
C19_Accounts == {SeedAccount, AccountNumber(Epoch - 1)}

C19_Deleted(acct) == acct \in C19_Accounts /\ ~Exists(acct)

\* the store holds no user row and no transaction record of acct
C19_Gone(s, acct) ==
    /\ \A u \in DOMAIN s.users : s.users[u].account_number # acct
    /\ \A i \in 1..Len(s.log) : s.log[i].account_number # acct

\* C19: after a successful deleteAccount(A) the store holds no account row, no
\* user row and no transaction record owned by A, then and at every later
\* time (so that history for A is empty); every later login with A's former
\* username fails with InvalidCredentials, and every later transfer to A
\* fails with AccountNotFound.
C19_DeletedStaysGone ==
    [][/\ \A acct \in C19_Accounts :
             (acct \notin DOMAIN db'.accounts) => C19_Gone(db', acct)
       /\ (Called("delete") /\ Reports("ok")) =>
             (Authenticated /\ ConsoleAccount \notin DOMAIN db'.accounts)
       /\ (Called("login") /\ Reports("ok")) =>
             /\ current_user' # current_user => Exists(current_user'[1].account_number)
             /\ session' # session => Exists(session'[Browser][1].account_number)
       /\ Called("transfer") =>
             \A t \in C19_Accounts, a \in Amounts, f \in Fail5 :
                (/\ C19_Deleted(t)
                 /\ \/ Admitted /\ t # ConsoleAccount /\ ConsoleTransfer(t, a, f)
                    \/ /\ LoggedIn(Browser)
                       /\ t # WebAccount(Browser)
                       /\ WebTransfer(Browser, t, a, f))
                   => (Reports("AccountNotFound") /\ StoreUnchanged)
      ]_vars

(* ---------------------------------------------------------------- C20 *)
\* the store, the open transaction and the console's identity are as they were
C20_NothingChanged ==
    /\ StoreUnchanged
    /\ pend' = pend
    /\ UNCHANGED <<current_user, token>>

\* C20: delete_account is all-or-nothing.  A call in which one of the three
\* deletions (or the commit) fails leaves the transaction records, the user
\* row and the account row exactly as before, with nothing left to be
\* committed later, and leaves the caller authenticated; a declined
\* confirmation changes nothing; a call that changes the store removes all
\* three kinds of rows of the caller's account.
C20_DeleteAtomic ==
    [][Called("delete") =>
          /\ \A f \in Fail4 \ {0} :
                (Authenticated /\ ConsoleDelete(TRUE, f))
                    => (C20_NothingChanged /\ current_user' # <<>>)
          /\ \A f \in Fail4 :
                (Authenticated /\ ConsoleDelete(FALSE, f)) => C20_NothingChanged
          /\ ~StoreUnchanged =>
                /\ Authenticated
                /\ db'.accounts = Remove(db.accounts, ConsoleAccount)
                /\ \A u \in DOMAIN db'.users :
                      db'.users[u].account_number # ConsoleAccount
                /\ \A i \in 1..Len(db'.log) :
                      db'.log[i].account_number # ConsoleAccount
      ]_vars

\* a deletion has failed for an identity that has transaction records
C20_Witness ==
    /\ last = Report("delete", "DeleteFailed")
    /\ current_user # <<>>
    /\ \E i \in 1..Len(db.log) :
          db.log[i].account_number = current_user[1].account_number

(* ------------------------------------------------------ transaction history *)
\* transaction records in the store when the history runs start, and how many
\* of them one second took
MaxHistory == 6
MaxPerSecond == 3

\* the accounts that own them, the seconds in which they were inserted
HistoryOwners == {SeedAccount, AccountNumber(Epoch - 1)}

HistoryTimes == {Epoch - 1, Epoch}

\* the deposits made before a history run: who deposited and when, in the
\* order of insertion (the clock never runs backwards)
Deposits ==
    UNION {{h \in [1..n -> HistoryOwners \X HistoryTimes] :
               /\ \A i \in 1..n, j \in 1..n : i < j => h[i][2] <= h[j][2]
               /\ \A t \in HistoryTimes :
                     Cardinality({i \in 1..n : h[i][2] = t}) <= MaxPerSecond} :
           n \in 0..MaxHistory}

\* the store after the web deposits h of amount 1 (deposit() of app.py: no
\* rate guard, so one second takes any number of them)
RECURSIVE Deposited(_, _)
Deposited(s, h) ==
    IF h = <<>> THEN s
    ELSE LET before == Deposited(s, SubSeq(h, 1, Len(h) - 1))
             d      == h[Len(h)]
         IN  InsertTransactionAt(UpdateBalance(before, d[1], 1), d[1], "Deposit",
                                 1, NoRelated, d[2])

InitHistory ==
    /\ db \in {Deposited(Registered, h) : h \in Deposits}
    /\ Idle

\* both front-ends list the records of the identity that is logged in
NextHistory ==
    \/ \E u \in Usernames, p \in Passwords : ConsoleLogin(u, p)
    \/ ConsoleLogout
    \/ ConsoleHistory
    \/ \E u \in Usernames, p \in Passwords : WebLogin(Browser, u, p)
    \/ WebLogout(Browser)
    \/ WebDashboard(Browser)

SpecHistory == InitHistory /\ [][NextHistory]_vars

(* ---------------------------------------------------------------- C21 *)
\* the rows in the order of insertion, the last inserted first
RECURSIVE C21_LatestFirst(_)
C21_LatestFirst(rows) ==
    IF rows = {} THEN <<>>
    ELSE LET r == CHOOSE x \in rows : \A y \in rows : x.id >= y.id
         IN  <<r>> \o C21_LatestFirst(rows \ {r})

\* the min(limit, n) most recently inserted records of acct, newest first,
\* records of one timestamp by insertion order, later insertion first
C21_Expected(s, acct, limit) == Limit(C21_LatestFirst(OwnRecords(s, acct)), limit)

\* C21: history(identity, limit) returns exactly the min(limit, n) most
\* recently inserted of the account's n records, ordered newest first by
\* timestamp, records of equal timestamp by insertion order (later insertion
\* first), and it changes no state.
C21_History ==
    [][/\ (Called("history") /\ Authenticated) =>
             /\ last'.rows = C21_Expected(ConsStore, ConsoleAccount, HistoryLimit)
             /\ UNCHANGED <<db, clock, current_user, token, rate_limit_cache,
                            pend, session, req>>
       /\ (Called("dashboard") /\ LoggedIn(Browser)) =>
             /\ last'.rows = C21_Expected(db, WebAccount(Browser), DashboardLimit)
             /\ UNCHANGED <<db, clock, current_user, token, rate_limit_cache,
                            pend, session, req>>
      ]_vars

(* ---------------------------------------------------------------- C22 *)
\* the kinds of a transaction record
C22_Kinds == {"Deposit", "Withdrawal", "Transfer Sent", "Transfer Received"}

\* C22: in every reachable state, the kind of every record in the transaction
\* log is one of Deposit, Withdrawal, Transfer Sent, Transfer Received,
\* whichever front-end (console engine or web) wrote it.
C22_RecordKinds ==
    \A i \in 1..Len(db.log) : db.log[i].type \in C22_Kinds

(* ----------------------------------------------------- deposit, then withdraw *)
\* amounts of the round trips: two, so that a withdraw of another amount than
\* the deposit before it is told apart
RoundAmounts == {1, 2}

\* one identity deposits and withdraws, at the console or in the browser,
\* while the clock runs second by second; no statement of the store fails
NextRound ==
    \/ \E u \in Usernames, p \in Passwords : ConsoleLogin(u, p)
    \/ \E a \in RoundAmounts : ConsoleDeposit(a, 0)
    \/ \E a \in RoundAmounts : ConsoleWithdraw(a, 0)
    \/ \E p \in Passwords : WebLogin(Browser, "test", p)
    \/ \E a \in PositiveAmounts : WebDeposit(Browser, a, 0)
    \/ \E a \in PositiveAmounts : WebWithdraw(Browser, a, 0)
    \/ Tick

SpecRound == InitLedger /\ [][NextRound]_vars

(* ---------------------------------------------------------------- C23 *)
\* the latest transaction record of acct is a Deposit of amount a: the last
\* change of its stored balance was deposit(a), from b to b + a
C23_Deposited(acct, a) ==
    LET own == SelectSeq(db.log, LAMBDA r : r.account_number = acct)
    IN  /\ own # <<>>
        /\ own[Len(own)].type = "Deposit"
        /\ own[Len(own)].amount = a

\* an accepted deposit(a) takes the stored balance of acct from b to b + a
C23_DepositAdds(acct, a) ==
    Reports("ok") => db'.accounts[acct].balance = Stored(acct) + a

\* the withdraw(a) brings the stored balance of acct from b + a back to b
C23_Back(acct, a) ==
    /\ acct \in DOMAIN db'.accounts
    /\ db'.accounts[acct].balance = Stored(acct) - a

NextStart ==
    \/ \E u \in Usernames, p \in Passwords : ConsoleLogin(u, p)
    \/ \E a \in PositiveAmounts : ConsoleDeposit(a, 0)
    \/ \E t \in Targets, a \in PositiveAmounts : ConsoleTransfer(t, a, 0)
    \/ \E c \in BOOLEAN : ConsoleDelete(c, 0)
    \/ ConsoleRestart
    \/ \E u \in Usernames, p \in Passwords : WebLogin(Browser, u, p)
    \/ \E a \in PositiveAmounts : WebDeposit(Browser, a, 0)
    \/ WebStartup

SpecStart == InitLedger /\ [][NextStart]_vars

(* ---------------------------------------------------------------- C24 *)
\* the step is a deleteAccount executed for account acct
C24_DeleteOf(acct) ==
    /\ Called("delete")
    /\ Reports("ok")
    /\ Authenticated
    /\ ConsoleAccount = acct

\* C24: the transaction log is append-only and accounts are durable: across
\* any sequence of operations and front-end start-ups (database initialisation
\* of the console and of the web application), a transaction record or account
\* row that exists is never changed or removed unless deleteAccount is
\* executed for its owning account.  (A record stays in the log as it is; an
\* account row stays in the table under its identifier and name.)
C24_AppendOnly ==
    [][/\ \A i \in 1..Len(db.log) :
             \/ \E j \in 1..Len(db'.log) : db'.log[j] = db.log[i]
             \/ C24_DeleteOf(db.log[i].account_number)
       /\ \A acct \in DOMAIN db.accounts :
             \/ /\ acct \in DOMAIN db'.accounts
                /\ db'.accounts[acct].name = db.accounts[acct].name
             \/ C24_DeleteOf(acct)
      ]_vars

(* ------------------------------------------------- one Bank, the only writer *)
\* the console alone: login, the money operations (a statement of a transfer
\* failing or not; a failing statement of deposit or withdraw ends the
\* process) and the balance query, while the clock runs second by second
NextBank ==
    \/ \E u \in Usernames, p \in Passwords : ConsoleLogin(u, p)
    \/ \E a \in Amounts : ConsoleDeposit(a, 0)
    \/ \E a \in Amounts : ConsoleWithdraw(a, 0)
    \/ \E t \in Targets, a \in Amounts, f \in Fail5 : ConsoleTransfer(t, a, f)
    \/ ConsoleBalance
    \/ Tick

SpecBank == InitLedger /\ [][NextBank]_vars

(* ---------------------------------------------------------------- C25 *)
\* the balance kept in current_user is the stored balance of its account
C25_CacheIsStored ==
    Authenticated =>
        /\ current_user[1].loaded
        /\ Exists(ConsoleAccount)
        /\ current_user[1].balance = Stored(ConsoleAccount)

\* C25: for a single Bank instance that is the only writer to the store,
\* after every login, deposit, withdraw and transfer_money call (accepted or
\* rejected) the cached current_user['balance'] equals the stored balance of
\* the logged-in account, so get_account_balance reports the stored balance.
C25_CachedBalance ==
    [][/\ C25_CacheIsStored'
       /\ (Called("balance") /\ Authenticated) =>
             last'.balance = Stored(ConsoleAccount)
      ]_vars

\* a transfer has been turned down by the store after an accepted call changed
\* the balance of the identity that is logged in
C25_Witness ==
    /\ last = Report("transfer", "TransferFailed")
    /\ Authenticated
    /\ \E i \in 1..Len(db.log) : db.log[i].account_number = ConsoleAccount

(* ------------------------------------------------ accounts opened and closed *)
\* the initial deposit of the accounts opened during a run: the balance at
\* creation of every account but the sample account
OpeningDeposit == CHOOSE d \in InitialDeposits : d > 0

\* accounts are opened, used from both front-ends and closed, while the clock
\* runs second by second; no statement of the store fails
NextLedger ==
    \/ \E u \in Usernames : ConsoleRegister(u, "pw", OpeningDeposit, 0)
    \/ \E u \in Usernames, p \in Passwords : ConsoleLogin(u, p)
    \/ \E a \in PositiveAmounts : ConsoleWithdraw(a, 0)
    \/ \E c \in BOOLEAN : ConsoleDelete(c, 0)
    \/ \E u \in Usernames, p \in Passwords : WebLogin(Browser, u, p)
    \/ \E a \in PositiveAmounts : WebDeposit(Browser, a, 0)
    \/ Tick

SpecLedger == Init /\ [][NextLedger]_vars

(* ---------------------------------------------------------------- C26 *)
\* the balance at creation of an account
C26_Created(acct) == IF acct = SeedAccount THEN SeedBalance ELSE OpeningDeposit

\* the sum of the amounts of the first n records of the log that account acct
\* owns and whose kind is one of kinds
RECURSIVE C26_Sum(_, _, _)
C26_Sum(n, acct, kinds) ==
    IF n = 0 THEN 0
    ELSE C26_Sum(n - 1, acct, kinds)
           + (IF db.log[n].account_number = acct /\ db.log[n].type \in kinds
              THEN db.log[n].amount ELSE 0)

C26_Total(acct, kinds) == C26_Sum(Len(db.log), acct, kinds)

\* acct has been party to a transfer with an account that has been deleted since
C26_DeletedParty(acct) ==
    \E i \in 1..Len(db.log) :
        /\ db.log[i].account_number = acct
        /\ db.log[i].related_account # NoRelated
        /\ db.log[i].related_account[1] \notin DOMAIN db.accounts

\* C26: ledger consistency: in every state reachable without store failures,
\* for every existing account that has not been party to a transfer with a
\* since-deleted account, stored balance = balance at creation + sum of its
\* Deposit amounts - sum of its withdrawal amounts (the console's Withdraw
\* records and the web's Withdrawal records) - sum of its Transfer Sent
\* amounts + sum of its Transfer Received amounts.
C26_LedgerConsistent ==
    \A acct \in DOMAIN db.accounts :
        ~C26_DeletedParty(acct) =>
            Stored(acct) = C26_Created(acct)
                             + C26_Total(acct, {"Deposit"})
                             - C26_Total(acct, {"Withdraw", "Withdrawal"})
                             - C26_Total(acct, {"Transfer Sent"})
                             + C26_Total(acct, {"Transfer Received"})

(* -------------------------------------- the console after a failed register *)
\* which statement of register raises in these runs (0: none; 2: the user
\* insert)
FailUser == {0, 2}

\* one Bank instance: register (the user insert failing or not), login and
\* the money operations, while the clock runs second by second
NextFrame ==
    \/ \E u \in RegNames, d \in RegDeposits, f \in FailUser :
          ConsoleRegister(u, "pw", d, f)
    \/ \E u \in Usernames, p \in Passwords : ConsoleLogin(u, p)
    \/ \E a \in Amounts : ConsoleDeposit(a, 0)
    \/ \E a \in Amounts : ConsoleWithdraw(a, 0)
    \/ \E t \in Targets, a \in Amounts : ConsoleTransfer(t, a, 0)
    \/ Tick

SpecFrame == Init /\ [][NextFrame]_vars

(* ---------------------------------------------------------------- C27 *)
\* the step changes the store in the balances and the records of the accounts
\* of parties at most: the users table, the identifiers and names of the
\* accounts, the balances of the other accounts and the records that exist are
\* as they were, and every new record is owned by one of parties
C27_Frame(parties) ==
    /\ db'.users = db.users
    /\ DOMAIN db'.accounts = DOMAIN db.accounts
    /\ \A acct \in DOMAIN db.accounts :
          /\ db'.accounts[acct].name = db.accounts[acct].name
          /\ acct \notin parties => db'.accounts[acct].balance = Stored(acct)
    /\ Len(db'.log) >= Len(db.log)
    /\ SubSeq(db'.log, 1, Len(db.log)) = db.log
    /\ \A i \in 1..Len(Appended) : Appended[i].account_number \in parties

\* the accounts that a console call, a request of the browser may change
C27_Console(others) == IF Authenticated THEN {ConsoleAccount} \cup others ELSE {}

C27_Web(others) ==
    IF LoggedIn(Browser) THEN {WebAccount(Browser)} \cup others ELSE {}

\* C27: frame of the money operations: deposit and withdraw change the
\* balance and log of the authenticated identity's account only; transfer
\* changes the balances and logs of the sender and the named recipient only;
\* none of the three changes the users table, any account's name or
\* identifier, or any existing transaction record.
C27_MoneyFrame ==
    [][/\ Called("deposit") =>
             /\ (\E a \in Amounts, f \in Fail3 : ConsoleDeposit(a, f))
                   => C27_Frame(C27_Console({}))
             /\ (\E a \in Amounts, f \in Fail3 : WebDeposit(Browser, a, f))
                   => C27_Frame(C27_Web({}))
       /\ Called("withdraw") =>
             /\ (\E a \in Amounts, f \in Fail3 : ConsoleWithdraw(a, f))
                   => C27_Frame(C27_Console({}))
             /\ (\E a \in Amounts, f \in Fail3 : WebWithdraw(Browser, a, f))
                   => C27_Frame(C27_Web({}))
       /\ Called("transfer") =>
             \A t \in Targets :
                /\ (\E a \in Amounts, f \in Fail5 : ConsoleTransfer(t, a, f))
                      => C27_Frame(C27_Console({t}))
                /\ (\E a \in Amounts, f \in Fail5 : WebTransfer(Browser, t, a, f))
                      => C27_Frame(C27_Web({t}))
      ]_vars

(* ---------------------------------------------------------------- C28 *)
\* the time of the last attempt of account acct that the rate guard accepted
\* lies at least 2 time units back, or the guard has seen none
C28_Due(acct) ==
    \/ acct \notin DOMAIN rate_limit_cache
    \/ Now - rate_limit_cache[acct] >= RateLimitInterval

\* what a method body reports when a business rule turns the call down
C28_BusinessFailures ==
    {"InvalidAmount", "InsufficientFunds", "SelfTransfer", "AccountNotFound"}

\* C28: an attempt rejected by the rate guard does not update the identity's
\* last-attempt timestamp: any deposit, withdraw or transfer attempt arriving
\* at least 2 time units after the identity's last guard-accepted attempt
\* passes the guard, regardless of how many rejected attempts occurred in
\* between; an attempt that passes the guard but then fails a business-rule
\* check does update the timestamp.  (The timestamp of an identity moves in
\* an attempt that the guard accepts and in no other call.)
C28_RejectedAttemptNoStamp ==
    [][IF C16_ConsoleAttempt /\ Authenticated
       THEN /\ Reports("RateLimited") => UNCHANGED rate_limit_cache
            /\ C28_Due(ConsoleAccount) => ~Reports("RateLimited")
            /\ ~C28_Due(ConsoleAccount) => Reports("RateLimited")
            /\ last'.res \in C28_BusinessFailures \cup {"ok", "TransferFailed"} =>
                  rate_limit_cache' = (ConsoleAccount :> Now) @@ rate_limit_cache
       ELSE UNCHANGED rate_limit_cache
      ]_vars

\* an attempt has been rejected by the rate guard one second after an attempt
\* that a business rule turned down, and the timestamp is still that of the
\* earlier attempt
C28_Witness ==
    /\ last = Report("withdraw", "RateLimited")
    /\ clock = 1
    /\ db.log = <<>>
    /\ Authenticated
    /\ ConsoleAccount \in DOMAIN rate_limit_cache
    /\ rate_limit_cache[ConsoleAccount] = Epoch

====
